---------------------------- MODULE Spec2Model ----------------------------
(***************************************************************************)
(* I-DT fixation detection on 3D gaze data: src/src/fixation3d.py.         *)
(*                                                                         *)
(* extract_fixations is one loop over the input samples.  One iteration    *)
(* of the loop is one action; the input is read one sample per iteration,  *)
(* so `data` holds the samples read so far and the loop index i is         *)
(* Len(data).  The end of the input (the return statement) may come after  *)
(* any iteration, which covers every input of at most MaxLen samples.      *)
(*                                                                         *)
(* Sizes and coordinates are integers (multiples of one unit of size);     *)
(* a mean is kept exactly, as the pair of its sum and its count.           *)
(***************************************************************************)
EXTENDS Integers, Sequences, FiniteSets, TLC

\* ---- bounds -------------------------------------------------------------
MaxLen == 4          \* samples in an input
MaxMinPoints == 2    \* min_points_per_fixation ranges over 1..MaxMinPoints
MaxTime == 1         \* timestamps range over 0..MaxTime
MaxOrigin == 1       \* origin components range over 0..MaxOrigin
MaxLenMean == 3      \* samples in an input of SpecMean
MaxLenAgain == 3     \* samples in an input of SpecAgain
MaxLenRuns == 6      \* samples in an input of SpecRuns

\* The two sizes, in units of the default min_fixation_size (0.047, line 13);
\* the default max_fixation_size (0.095) is two units.  Each parameter takes
\* either value, so that min < max, min = max and min > max all occur.
Sizes == 1..2

\* Direction components, in the same unit: a window has an extent of 0, 1 or
\* 2, which is below, at and above each size.
Coords == 0..2

VARIABLES
    min_points_per_fixation,  \* parameter
    min_fixation_size,        \* parameter
    max_fixation_size,        \* parameter
    data,                     \* the input samples read so far (rows 1..i)
    gaze_points_queue,        \* dict of parallel lists
    fixation,                 \* dict of parallel lists
    fixations,                \* list of emitted rows
    processing_fixation,      \* FALSE: Accumulating, TRUE: FixatingActive
    fixation_df,              \* the returned rows, once pc = "done"
    pc,                       \* "loop", "done", or "raised" (a Python exception)
    idt_calls,                \* history: the calls of is_fixation_idt so far
    earlier                   \* history: input and result of earlier invocations

vars == <<min_points_per_fixation, min_fixation_size, max_fixation_size, data,
          gaze_points_queue, fixation, fixations, processing_fixation,
          fixation_df, pc, idt_calls, earlier>>

params == <<min_points_per_fixation, min_fixation_size, max_fixation_size>>

\* ---- sequences ----------------------------------------------------------
Range(s) == {s[k] : k \in 1..Len(s)}

SetMax(S) == CHOOSE m \in S : \A v \in S : v <= m

SetMin(S) == CHOOSE m \in S : \A v \in S : m <= v

\* Python max(list) and min(list), lists being non-empty
PyMax(s) == SetMax(Range(s))

PyMin(s) == SetMin(Range(s))

RECURSIVE Sum(_)
Sum(s) == IF s = <<>> THEN 0 ELSE s[1] + Sum(Tail(s))

\* Python list[-n:] for n >= 1: the newest n elements, all of them if fewer
NewestOf(s, n) ==
    IF Len(s) <= n THEN s ELSE SubSeq(s, Len(s) - n + 1, Len(s))

\* ---- the dispersion test --------------------------------------------------
\* mutant of is_fixation_idt: an extent equal to the size passes
is_fixation_idt_inclusive(gaze_points, fixation_size) ==
    LET X == gaze_points.X
        Y == gaze_points.Y
        Z == gaze_points.Z
    IN  SetMax({PyMax(X) - PyMin(X), PyMax(Y) - PyMin(Y), PyMax(Z) - PyMin(Z)})
            <= fixation_size

is_fixation_idt(gaze_points, fixation_size) ==
    LET X == gaze_points.X
        Y == gaze_points.Y
        Z == gaze_points.Z
    IN  IF SetMax({PyMax(X) - PyMin(X), PyMax(Y) - PyMin(Y), PyMax(Z) - PyMin(Z)})
              < fixation_size
        THEN TRUE
        ELSE FALSE

\* ---- the dicts of parallel lists -------------------------------------------
\* The key idx is a history list: the input position of each entry.  The code
\* treats all keys alike, and so does every operator below.
EmptyLists ==
    [timestamps |-> <<>>, X |-> <<>>, Y |-> <<>>, Z |-> <<>>, origin |-> <<>>,
     idx |-> <<>>]

\* lines 44-48 and 64-68: append row i of the input to each list
AppendRow(lists, row, i) ==
    [timestamps |-> Append(lists.timestamps, row.timestamp),
     X |-> Append(lists.X, row.direction_x),
     Y |-> Append(lists.Y, row.direction_y),
     Z |-> Append(lists.Z, row.direction_z),
     origin |-> Append(lists.origin, row.origin),
     idx |-> Append(lists.idx, i)]

\* mutant of KeepNewest: one point too many is kept
KeepOneMore(lists, n) == [key \in DOMAIN lists |-> NewestOf(lists[key], n + 1)]

\* mutant of KeepNewest: the oldest points are kept, list[:n]
KeepOldest(lists, n) ==
    [key \in DOMAIN lists |->
        IF Len(lists[key]) <= n THEN lists[key] ELSE SubSeq(lists[key], 1, n)]

\* mutant of KeepNewest: the queue is never trimmed
KeepAll(lists, n) == lists

\* lines 52-55: keep the newest min_points_per_fixation points
KeepNewest(lists, n) == [key \in DOMAIN lists |-> NewestOf(lists[key], n)]

\* mutant of Popped: the row is saved before the outlier is taken out
NotPopped(lists) == lists

\* mutant of Popped: two entries are taken out
PoppedTwice(lists) ==
    [key \in DOMAIN lists |-> SubSeq(lists[key], 1, Len(lists[key]) - 2)]

\* line 80, fixation[key].pop(): what is left of each list
Popped(lists) ==
    [key \in DOMAIN lists |-> SubSeq(lists[key], 1, Len(lists[key]) - 1)]

\* mutant of OutlierQueue: the queue is not replaced by a new dict, so that
\* the popped entry goes back to the end of the list it came from
OutlierQueueNotReset(lists) == lists

\* lines 72-80: the new queue, holding the popped entry of each list
OutlierQueue(lists) ==
    [key \in DOMAIN lists |-> Append(EmptyLists[key], lists[key][Len(lists[key])])]

\* np.mean of a list: its sum over its count
Mean(s) == [sum |-> Sum(s), n |-> Len(s)]

\* origin[:, c] of np.array(fixation["origin"])
Column(origin, c) == [k \in 1..Len(origin) |-> origin[k][c]]

\* mutant of FixationRow: start and end are taken from the wrong ends
FixationRowSwapped(lists) ==
    [start |-> lists.timestamps[Len(lists.timestamps)],
     end |-> lists.timestamps[1],
     x |-> Mean(lists.X),
     y |-> Mean(lists.Y),
     z |-> Mean(lists.Z),
     origin_x |-> Mean(Column(lists.origin, 1)),
     origin_y |-> Mean(Column(lists.origin, 2)),
     origin_z |-> Mean(Column(lists.origin, 3)),
     members |-> lists.idx]

\* lines 83-103: the row saved for a fixation
FixationRow(lists) ==
    [start |-> lists.timestamps[1],
     end |-> lists.timestamps[Len(lists.timestamps)],
     x |-> Mean(lists.X),
     y |-> Mean(lists.Y),
     z |-> Mean(lists.Z),
     origin_x |-> Mean(Column(lists.origin, 1)),
     origin_y |-> Mean(Column(lists.origin, 2)),
     origin_z |-> Mean(Column(lists.origin, 3)),
     members |-> lists.idx]

\* history: one call of is_fixation_idt
IdtCall(lists, size, result) ==
    [processing |-> processing_fixation, X |-> lists.X, Y |-> lists.Y,
     Z |-> lists.Z, idx |-> lists.idx, size |-> size, result |-> result]

\* ---- inputs ----------------------------------------------------------------
\* directions with at most one non-zero component
Directions ==
    {d \in Coords \X Coords \X Coords :
        Cardinality({c \in 1..3 : d[c] # 0}) <= 1}

Origins ==
    {o \in (0..MaxOrigin) \X (0..MaxOrigin) \X (0..MaxOrigin) :
        Cardinality({c \in 1..3 : o[c] # 0}) <= 1}

Row(t, d, o) ==
    [timestamp |-> t, direction_x |-> d[1], direction_y |-> d[2],
     direction_z |-> d[3], origin |-> o]

\* Spec: every direction, one timestamp, one origin
Rows == {Row(0, d, <<0, 0, 0>>) : d \in Directions}

\* SpecTime: every timestamp, directions along x
RowsTime == {Row(t, <<c, 0, 0>>, <<0, 0, 0>>) : t \in 0..MaxTime, c \in Coords}

\* SpecMean: every direction with one origin, and every origin with one
\* direction
RowsMean ==
    {Row(0, d, <<0, 0, 0>>) : d \in Directions}
        \cup {Row(0, <<0, 0, 0>>, o) : o \in Origins}

\* SpecAgain and SpecRuns: directions along x, one timestamp, one origin
RowsAgain == {Row(0, <<c, 0, 0>>, <<0, 0, 0>>) : c \in Coords}

\* ---- the program -------------------------------------------------------------
\* lines 12-14 and 36-39
Init ==
    /\ min_points_per_fixation \in 1..MaxMinPoints
    /\ min_fixation_size \in Sizes
    /\ max_fixation_size \in Sizes
    /\ data = <<>>
    /\ gaze_points_queue = EmptyLists
    /\ fixation = EmptyLists
    /\ fixations = <<>>
    /\ processing_fixation = FALSE
    /\ fixation_df = <<>>
    /\ pc = "loop"
    /\ idt_calls = <<>>
    /\ earlier = <<>>

\* mutant of StartSize: a fixation starts at the size that continues one
StartSizeMax == max_fixation_size

\* line 57: the size that starts a fixation
StartSize == min_fixation_size

\* mutant of ContinueSize: a fixation continues at the size that starts one
ContinueSizeMin == min_fixation_size

\* line 70: the size that continues a fixation
ContinueSize == max_fixation_size

\* mutant of Returned: a fixation still open at the end of the input is saved
ReturnedWithOpenFixation ==
    IF processing_fixation
    THEN Append(fixations, FixationRow(fixation))
    ELSE fixations

\* lines 109-113: the rows of the returned frame
Returned == fixations

\* lines 42-50: not processing a fixation, and the queue is still too short
QueuePoint(row, maxlen) ==
    LET queue == AppendRow(gaze_points_queue, row, Len(data) + 1)
    IN  /\ pc = "loop"
        /\ Len(data) < maxlen
        /\ ~processing_fixation
        /\ ~(Len(queue.timestamps) >= min_points_per_fixation)
        /\ data' = Append(data, row)
        /\ gaze_points_queue' = queue
        /\ UNCHANGED <<params, fixation, fixations, processing_fixation,
                       fixation_df, pc, idt_calls, earlier>>

\* lines 42-60: not processing a fixation, enough points, and the queue is tested
TestQueue(row, maxlen) ==
    LET queue == KeepNewest(AppendRow(gaze_points_queue, row, Len(data) + 1),
                            min_points_per_fixation)
        found == is_fixation_idt(queue, StartSize)
    IN  /\ pc = "loop"
        /\ Len(data) < maxlen
        /\ ~processing_fixation
        /\ Len(gaze_points_queue.timestamps) + 1 >= min_points_per_fixation
        /\ data' = Append(data, row)
        /\ gaze_points_queue' = queue
        /\ IF Len(queue.X) = 0
           THEN \* max() of an empty list raises ValueError
                /\ pc' = "raised"
                /\ UNCHANGED <<idt_calls, processing_fixation, fixation>>
           ELSE /\ idt_calls' = Append(idt_calls, IdtCall(queue, StartSize, found))
                /\ processing_fixation' = found
                \* line 60 binds the lists of the queue to the keys of fixation:
                \* from here to the end of the fixation both dicts hold the
                \* same lists
                /\ fixation' = IF found THEN queue ELSE fixation
                /\ UNCHANGED pc
        /\ UNCHANGED <<params, fixations, fixation_df, earlier>>

\* lines 62-107: processing a fixation
TestFixation(row, maxlen) ==
    LET grown == AppendRow(fixation, row, Len(data) + 1)
        still == is_fixation_idt(grown, ContinueSize)
        rest == Popped(grown)
    IN  /\ pc = "loop"
        /\ Len(data) < maxlen
        /\ processing_fixation
        /\ data' = Append(data, row)
        /\ idt_calls' = Append(idt_calls, IdtCall(grown, ContinueSize, still))
        /\ IF still
           THEN \* the lists are shared with the queue (line 60)
                /\ fixation' = grown
                /\ gaze_points_queue' = grown
                /\ UNCHANGED <<fixations, processing_fixation, pc>>
           ELSE IF Len(rest.timestamps) = 0
           THEN \* fixation["timestamps"][0] raises IndexError
                /\ pc' = "raised"
                /\ gaze_points_queue' = OutlierQueue(grown)
                /\ fixation' = rest
                /\ UNCHANGED <<fixations, processing_fixation>>
           ELSE /\ gaze_points_queue' = OutlierQueue(grown)
                /\ fixations' = Append(fixations, FixationRow(rest))
                /\ fixation' = EmptyLists
                /\ processing_fixation' = FALSE
                /\ UNCHANGED pc
        /\ UNCHANGED <<params, fixation_df, earlier>>

\* lines 109-113: the input is exhausted
Return ==
    /\ pc = "loop"
    /\ pc' = "done"
    /\ fixation_df' = Returned
    /\ UNCHANGED <<params, data, gaze_points_queue, fixation, fixations,
                   processing_fixation, idt_calls, earlier>>

\* mutant of NewQueue: the queue outlives the invocation, as a module-level
\* dict or a mutable default argument would
QueueOfLastCall == gaze_points_queue

\* line 36: the queue an invocation starts with
NewQueue == EmptyLists

\* lines 12-39: the function is called again, with the same parameters, after
\* it has returned; its local variables are created anew
CallAgain ==
    /\ pc = "done"
    /\ earlier = <<>>
    /\ earlier' = Append(earlier, [data |-> data, fixation_df |-> fixation_df])
    /\ data' = <<>>
    /\ gaze_points_queue' = NewQueue
    /\ fixation' = EmptyLists
    /\ fixations' = <<>>
    /\ processing_fixation' = FALSE
    /\ fixation_df' = <<>>
    /\ pc' = "loop"
    /\ idt_calls' = <<>>
    /\ UNCHANGED params

Next ==
    \/ \E row \in Rows : QueuePoint(row, MaxLen)
    \/ \E row \in Rows : TestQueue(row, MaxLen)
    \/ \E row \in Rows : TestFixation(row, MaxLen)
    \/ Return

Spec == Init /\ [][Next]_vars

NextTime ==
    \/ \E row \in RowsTime : QueuePoint(row, MaxLen)
    \/ \E row \in RowsTime : TestQueue(row, MaxLen)
    \/ \E row \in RowsTime : TestFixation(row, MaxLen)
    \/ Return

SpecTime == Init /\ [][NextTime]_vars

NextMean ==
    \/ \E row \in RowsMean : QueuePoint(row, MaxLenMean)
    \/ \E row \in RowsMean : TestQueue(row, MaxLenMean)
    \/ \E row \in RowsMean : TestFixation(row, MaxLenMean)
    \/ Return

SpecMean == Init /\ [][NextMean]_vars

NextAgain ==
    \/ \E row \in RowsAgain : QueuePoint(row, MaxLenAgain)
    \/ \E row \in RowsAgain : TestQueue(row, MaxLenAgain)
    \/ \E row \in RowsAgain : TestFixation(row, MaxLenAgain)
    \/ Return
    \/ CallAgain

SpecAgain == Init /\ [][NextAgain]_vars

NextRuns ==
    \/ \E row \in RowsAgain : QueuePoint(row, MaxLenRuns)
    \/ \E row \in RowsAgain : TestQueue(row, MaxLenRuns)
    \/ \E row \in RowsAgain : TestFixation(row, MaxLenRuns)
    \/ Return

SpecRuns == Init /\ [][NextRuns]_vars

\* ---- properties ---------------------------------------------------------------
\* the direction components of an input row
Axes(row) == <<row.direction_x, row.direction_y, row.direction_z>>

\* the dispersion of the rows of input d at the positions I: the greatest
\* difference between two of them along one axis
Spread(d, I) ==
    SetMax({Axes(d[a])[c] - Axes(d[b])[c] : a \in I, b \in I, c \in 1..3})

\* the lists a dict holds when its entries are the rows of d at positions a..b
ListsOf(d, a, b) ==
    [timestamps |-> [k \in 1..(b - a + 1) |-> d[a + k - 1].timestamp],
     X |-> [k \in 1..(b - a + 1) |-> d[a + k - 1].direction_x],
     Y |-> [k \in 1..(b - a + 1) |-> d[a + k - 1].direction_y],
     Z |-> [k \in 1..(b - a + 1) |-> d[a + k - 1].direction_z],
     origin |-> [k \in 1..(b - a + 1) |-> d[a + k - 1].origin],
     idx |-> [k \in 1..(b - a + 1) |-> a + k - 1]]

\* a row was read in this step while a fixation was being processed, and it
\* brought the dispersion of the window to max_fixation_size or more
Disqualified ==
    /\ processing_fixation
    /\ Len(data') = Len(data) + 1
    /\ Spread(data', Range(fixation.idx) \cup {Len(data')}) >= max_fixation_size

\* C1: a row that is read while a fixation is processed and makes the window
\* fail the dispersion test with max_fixation_size is taken out of the window:
\* after the step the state is Accumulating, the queue holds that row and
\* nothing else, and the row is no member of the saved fixation.
C1_OutlierAloneInQueue ==
    [][Disqualified =>
          /\ ~processing_fixation'
          /\ gaze_points_queue' = ListsOf(data', Len(data'), Len(data'))
          /\ Len(data') \notin Range(fixation'.idx)
          /\ Len(fixations') = Len(fixations) + 1
          /\ Len(data') \notin Range(fixations'[Len(fixations')].members)]_vars

\* C1 witness: a fixation of two rows has just been ended by a third row,
\* which is alone in the queue
C1_Witness ==
    /\ pc = "loop"
    /\ ~processing_fixation
    /\ Len(data) = 3
    /\ Len(fixations) = 1
    /\ fixations[1].members = <<1, 2>>
    /\ gaze_points_queue.idx = <<3>>

\* C2: in state Accumulating no list of the queue is longer than
\* min_points_per_fixation, after every step.
C2_QueueCapped ==
    ~processing_fixation =>
        \A key \in DOMAIN gaze_points_queue :
            Len(gaze_points_queue[key]) <= min_points_per_fixation

\* C2 witness: the queue is full and older rows have been dropped from it,
\* no fixation having started
C2_Witness ==
    /\ ~processing_fixation
    /\ fixations = <<>>
    /\ min_points_per_fixation = 2
    /\ Len(data) = 4
    /\ gaze_points_queue.idx = <<3, 4>>

\* the calls of the dispersion test made on a row read while a fixation was
\* processed and that the window failed
FailedInFixation == {k \in 1..Len(idt_calls) :
                        idt_calls[k].processing /\ ~idt_calls[k].result}

\* C3: the returned frame has one row per row of the input that was read while
\* a fixation was processed and failed the dispersion test: the end of the
\* input adds no row for an open window or queue.
C3_NoRowAtEndOfInput ==
    pc = "done" =>
        /\ Len(fixation_df) = Cardinality(FailedInFixation)
        /\ fixation_df = fixations

\* C3 witness: the input ended with a fixation of three rows open, and the
\* frame is empty
C3_Witness ==
    /\ pc = "done"
    /\ processing_fixation
    /\ Len(data) = 3
    /\ fixation.idx = <<1, 2, 3>>
    /\ fixation_df = <<>>

NonDecreasing(d) ==
    \A k \in 1..(Len(d) - 1) : d[k].timestamp <= d[k + 1].timestamp

\* C4: when the timestamps of the input do not decrease, the saved rows are in
\* non-decreasing order of end, and start <= end in every row.
C4_RowsOrderedByEnd ==
    NonDecreasing(data) =>
        /\ \A j \in 1..Len(fixations) : \A k \in j..Len(fixations) :
               fixations[j].end <= fixations[k].end
        /\ \A k \in 1..Len(fixations) : fixations[k].start <= fixations[k].end

\* C4 witness: two rows, the later one with the later end, from an input of
\* non-decreasing timestamps
C4_Witness ==
    /\ NonDecreasing(data)
    /\ Len(fixations) = 2
    /\ fixations[1].end < fixations[2].end

\* the sum of f over the positions I
RECURSIVE TotalOver(_, _)
TotalOver(f, I) ==
    IF I = {}
    THEN 0
    ELSE LET k == CHOOSE k \in I : TRUE IN f[k] + TotalOver(f, I \ {k})

\* the mean of the values f[a..b]
MeanOver(f, a, b) == [sum |-> TotalOver(f, a..b), n |-> b - a + 1]

\* C5: in the step that saves a row, the members of the row are the rows of
\* the input from a first one up to the one just before the row read in this
\* step (the disqualifying one), start and end are the timestamps of the first
\* and the last of them, and each mean is the sum of its component over
\* exactly those rows, over their number.
C5_MeansOverMembers ==
    [][Len(fixations') = Len(fixations) + 1 =>
          LET r == fixations'[Len(fixations')]
              d == data'
              b == Len(d) - 1
              a == r.members[1]
          IN  /\ a <= b
              /\ r.members = [k \in 1..(b - a + 1) |-> a + k - 1]
              /\ r.start = d[a].timestamp
              /\ r.end = d[b].timestamp
              /\ r.x = MeanOver([k \in a..b |-> d[k].direction_x], a, b)
              /\ r.y = MeanOver([k \in a..b |-> d[k].direction_y], a, b)
              /\ r.z = MeanOver([k \in a..b |-> d[k].direction_z], a, b)
              /\ r.origin_x = MeanOver([k \in a..b |-> d[k].origin[1]], a, b)
              /\ r.origin_y = MeanOver([k \in a..b |-> d[k].origin[2]], a, b)
              /\ r.origin_z = MeanOver([k \in a..b |-> d[k].origin[3]], a, b)]_vars

\* C5 witness: a row of two members whose mean origin_y is 1/2, the third row
\* of the input having ended the fixation
C5_Witness ==
    /\ Len(data) = 3
    /\ Len(fixations) = 1
    /\ fixations[1].members = <<1, 2>>
    /\ fixations[1].origin_y = [sum |-> 1, n |-> 2]
    /\ fixations[1].origin_x = [sum |-> 0, n |-> 2]
    /\ data[3].direction_z = 2

\* the extent of the window of a call: the greatest difference between two of
\* its points along one axis
ExtentOf(call) ==
    SetMax({call.X[i] - call.X[j] : i, j \in 1..Len(call.X)}
           \cup {call.Y[i] - call.Y[j] : i, j \in 1..Len(call.Y)}
           \cup {call.Z[i] - call.Z[j] : i, j \in 1..Len(call.Z)})

\* C6: every call of the dispersion test returned true exactly when the extent
\* of its window was strictly below its size (so false when they were equal),
\* and the window of a fixation being processed is the window of the latest
\* call, as the call left it.
C6_TrueIffExtentBelowSize ==
    /\ \A k \in 1..Len(idt_calls) :
           /\ Len(idt_calls[k].X) >= 1
           /\ idt_calls[k].result <=> (ExtentOf(idt_calls[k]) < idt_calls[k].size)
    /\ processing_fixation =>
           /\ fixation.X = idt_calls[Len(idt_calls)].X
           /\ fixation.Y = idt_calls[Len(idt_calls)].Y
           /\ fixation.Z = idt_calls[Len(idt_calls)].Z

\* C6 witness: a call whose window has an extent of 2, along z only, for a
\* size of 2, has returned false
C6_Witness ==
    \E k \in 1..Len(idt_calls) :
        /\ idt_calls[k].size = 2
        /\ idt_calls[k].X = <<0, 0>>
        /\ idt_calls[k].Y = <<0, 0>>
        /\ idt_calls[k].Z = <<0, 2>>
        /\ ~idt_calls[k].result

\* the calls of the dispersion test that started a fixation
Started == {k \in 1..Len(idt_calls) :
               ~idt_calls[k].processing /\ idt_calls[k].result}

\* C7: in the step that saves a row, start is the timestamp of the oldest of
\* the min_points_per_fixation rows of the queue that passed the start test,
\* and end is the timestamp of the row just before the row read in this step.
C7_StartAndEnd ==
    [][Len(fixations') = Len(fixations) + 1 =>
          LET r == fixations'[Len(fixations')]
              call == idt_calls[SetMax(Started)]
              last == call.idx[Len(call.idx)]
          IN  /\ Started # {}
              /\ call.size = min_fixation_size
              /\ r.start = data'[last - min_points_per_fixation + 1].timestamp
              /\ r.end = data'[Len(data') - 1].timestamp]_vars

\* C7 witness: two clustered rows and an outlier give one row, from the
\* timestamp of the first to the later timestamp of the second
C7_Witness ==
    /\ min_points_per_fixation = 2
    /\ Len(data) = 3
    /\ Len(fixations) = 1
    /\ data[1].timestamp = 0
    /\ data[2].timestamp = 1
    /\ fixations[1].start = 0
    /\ fixations[1].end = 1

\* no min_points_per_fixation consecutive rows of the input have a dispersion
\* below min_fixation_size
NoCluster ==
    \A k \in min_points_per_fixation..Len(data) :
        Spread(data, (k - min_points_per_fixation + 1)..k) >= min_fixation_size

\* C8: as long as no min_points_per_fixation consecutive rows of the input
\* have a dispersion below min_fixation_size, the state is Accumulating and
\* no row is saved.
C8_NoClusterNoFixation ==
    NoCluster => ~processing_fixation /\ fixations = <<>> /\ fixation_df = <<>>

\* C8 witness: four rows without a cluster of two have been read
C8_Witness ==
    /\ min_points_per_fixation = 2
    /\ Len(data) = 4
    /\ NoCluster
    /\ pc = "done"

\* C9: no exception is raised: the dispersion test is never called on an
\* empty window and a row is never computed from an empty window.
C9_NothingRaised ==
    /\ pc # "raised"
    /\ \A k \in 1..Len(idt_calls) :
           Len(idt_calls[k].X) >= 1 /\ Len(idt_calls[k].Y) >= 1
               /\ Len(idt_calls[k].Z) >= 1
    /\ \A k \in 1..Len(fixations) :
           Len(fixations[k].members) >= 1 /\ fixations[k].x.n >= 1
               /\ fixations[k].origin_x.n >= 1

\* C9 witness: a row was computed from a window of one row, the least there is
C9_Witness ==
    /\ min_points_per_fixation = 1
    /\ Len(fixations) = 2
    /\ Len(fixations[2].members) = 1
    /\ pc = "done"

\* C10: with min_points_per_fixation = 1, a row read in state Accumulating
\* passes the start test by itself and the step ends in state FixatingActive
\* with that row alone in the window.
C10_OnePointStarts ==
    [][(/\ min_points_per_fixation = 1
        /\ ~processing_fixation
        /\ Len(data') = Len(data) + 1) =>
          /\ processing_fixation'
          /\ fixation' = ListsOf(data', Len(data'), Len(data'))
          /\ Len(idt_calls') = Len(idt_calls) + 1
          /\ idt_calls'[Len(idt_calls')].idx = <<Len(data')>>
          /\ idt_calls'[Len(idt_calls')].size = min_fixation_size
          /\ idt_calls'[Len(idt_calls')].result]_vars

\* C10 witness: the row read after the outlier of a first fixation has
\* started the second one by itself
C10_Witness ==
    /\ min_points_per_fixation = 1
    /\ processing_fixation
    /\ Len(fixations) = 1
    /\ gaze_points_queue.idx = <<Len(data)>>
    /\ fixation.idx = <<Len(data)>>
    /\ Len(data) = 3

\* C11: an invocation starts from the state of a first invocation whatever
\* the earlier one left behind (an open fixation, a partly filled queue, saved
\* rows), and an invocation on the input and parameters of an earlier one
\* returns the rows the earlier one returned.
C11_InvocationsIndependent ==
    [][/\ Len(earlier') > Len(earlier) =>
              /\ data' = <<>>
              /\ gaze_points_queue' = EmptyLists
              /\ fixation' = EmptyLists
              /\ fixations' = <<>>
              /\ ~processing_fixation'
       /\ (pc' = "done" /\ earlier' # <<>> /\ earlier'[1].data = data') =>
              fixation_df' = earlier'[1].fixation_df]_vars

\* C11 witness: the first invocation ended with a fixation open after saving
\* a row, and the second one, on the same input, has returned the same row
C11_Witness ==
    /\ pc = "done"
    /\ earlier # <<>>
    /\ earlier[1].data = data
    /\ Len(data) = 3
    /\ Len(fixation_df) = 1
    /\ earlier[1].fixation_df = fixation_df
    /\ min_points_per_fixation = 1
    /\ processing_fixation

\* the latest call of the dispersion test ended a fixation, and no start test
\* has been run since
FixationJustEnded ==
    /\ idt_calls # <<>>
    /\ idt_calls[Len(idt_calls)].processing
    /\ ~idt_calls[Len(idt_calls)].result

\* C12: the row that ended a fixation is a member of the queue of the first
\* start test run after it, for every min_points_per_fixation >= 1.
C12_OutlierInNextStartTest ==
    [][(FixationJustEnded /\ Len(idt_calls') = Len(idt_calls) + 1) =>
          LET ending == idt_calls[Len(idt_calls)]
              outlier == ending.idx[Len(ending.idx)]
              next == idt_calls'[Len(idt_calls')]
          IN  /\ ~next.processing
              /\ next.size = min_fixation_size
              /\ outlier \in Range(next.idx)]_vars

\* the input positions that are members of a saved row
SavedMembers == UNION {Range(fixations[k].members) : k \in 1..Len(fixations)}

\* C13: when a row is read in state Accumulating and the queue then holds
\* min_points_per_fixation rows whose dispersion is below min_fixation_size,
\* the state becomes FixatingActive and the window holds exactly those rows,
\* in input order; and in state Accumulating the queue holds no member of a
\* saved fixation, so nothing appended to a window is left in the queue that
\* follows it.
C13_WindowIsTheQueue ==
    [][/\ LET i == Len(data')
              first == i - min_points_per_fixation + 1
          IN  (/\ ~processing_fixation
               /\ i = Len(data) + 1
               /\ Len(gaze_points_queue.idx) + 1 >= min_points_per_fixation
               /\ Spread(data', first..i) < min_fixation_size) =>
                  /\ processing_fixation'
                  /\ fixation' = ListsOf(data', first, i)
       /\ ~processing_fixation' =>
              Range(gaze_points_queue'.idx) \cap SavedMembers' = {}]_vars

\* C13 witness: a fixation started on rows 1 and 2, grew by row 3 and was
\* ended by row 4, which is alone in the queue
C13_Witness ==
    /\ min_points_per_fixation = 2
    /\ ~processing_fixation
    /\ Len(fixations) = 1
    /\ fixations[1].members = <<1, 2, 3>>
    /\ gaze_points_queue.idx = <<4>>

\* the input position the queue was last reset at: the row that ended the
\* latest fixation, or the first row
ResetAt ==
    IF FailedInFixation = {}
    THEN 1
    ELSE LET call == idt_calls[SetMax(FailedInFixation)] IN call.idx[Len(call.idx)]

\* the queue as a sliding window: the newest rows read since the reset, at
\* most min_points_per_fixation of them
SlidingQueue ==
    LET k == Len(data) - ResetAt + 1
        n == IF k < min_points_per_fixation THEN k ELSE min_points_per_fixation
    IN  gaze_points_queue = ListsOf(data, Len(data) - n + 1, Len(data))

\* C14: in state Accumulating the queue holds, in input order, the newest
\* min(k, min_points_per_fixation) rows of the k rows read since the queue was
\* last reset; a row whose start test fails leaves the state Accumulating and
\* saves nothing; and a row appended to a full queue evicts exactly the
\* oldest one.
C14_QueueSlides ==
    [][/\ ~processing_fixation' => SlidingQueue'
       /\ LET i == Len(data')
              first == i - min_points_per_fixation + 1
          IN  (/\ ~processing_fixation
               /\ i = Len(data) + 1
               /\ Len(gaze_points_queue.idx) + 1 >= min_points_per_fixation
               /\ Spread(data', first..i) >= min_fixation_size) =>
                  /\ ~processing_fixation'
                  /\ fixations' = fixations
                  /\ Len(gaze_points_queue.idx) = min_points_per_fixation =>
                         gaze_points_queue'.idx
                             = Append(Tail(gaze_points_queue.idx), i)]_vars

\* C14 witness: after the reset at row 3, row 4 failed the start test and the
\* queue holds rows 3 and 4
C14_Witness ==
    /\ min_points_per_fixation = 2
    /\ ~processing_fixation
    /\ Len(fixations) = 1
    /\ Len(data) = 4
    /\ gaze_points_queue.idx = <<3, 4>>
    /\ Len(idt_calls) = 3

\* C15: when a row is read while a fixation is processed and the window with
\* that row has a dispersion below max_fixation_size (min_fixation_size plays
\* no part), the state stays FixatingActive, the window is the old window
\* with that row appended, and the saved rows are unchanged.
C15_WindowGrows ==
    [][LET i == Len(data')
       IN  (/\ processing_fixation
            /\ i = Len(data) + 1
            /\ Spread(data', Range(fixation.idx) \cup {i}) < max_fixation_size) =>
               /\ processing_fixation'
               /\ fixation'.idx = Append(fixation.idx, i)
               /\ fixation' = ListsOf(data', fixation.idx[1], i)
               /\ \A key \in DOMAIN fixation :
                      SubSeq(fixation'[key], 1, Len(fixation[key])) = fixation[key]
               /\ fixations' = fixations
               /\ pc' = pc]_vars

\* C15 witness: a window started on rows 1 and 2 has grown by row 3, which
\* brought its dispersion to min_fixation_size, below max_fixation_size
C15_Witness ==
    /\ min_points_per_fixation = 2
    /\ min_fixation_size = 1
    /\ max_fixation_size = 2
    /\ processing_fixation
    /\ Len(data) = 3
    /\ fixation.idx = <<1, 2, 3>>
    /\ Spread(data, 1..3) = 1
    /\ fixations = <<>>

\* the window of an open fixation and the members of every saved row have a
\* dispersion strictly below max_fixation_size
BelowMaxSize ==
    /\ processing_fixation =>
           Spread(data, Range(fixation.idx)) < max_fixation_size
    /\ \A k \in 1..Len(fixations) :
           Spread(data, Range(fixations[k].members)) < max_fixation_size

\* C16: when min_fixation_size <= max_fixation_size, after every step the
\* window of a fixation being processed, and the members of every saved row,
\* have a dispersion strictly below max_fixation_size.
C16_BelowMaxSize ==
    min_fixation_size <= max_fixation_size => BelowMaxSize

\* C16 witness: with min_fixation_size below max_fixation_size, a row was
\* saved whose members have a dispersion of min_fixation_size, and the next
\* fixation is open
C16_Witness ==
    /\ min_fixation_size = 1
    /\ max_fixation_size = 2
    /\ Len(fixations) = 1
    /\ Spread(data, Range(fixations[1].members)) = 1
    /\ processing_fixation
    /\ Len(fixation.idx) = 1

\* C17: every saved row summarizes at least min_points_per_fixation rows of
\* the input: that many members, and that many values in every mean.
C17_AtLeastMinPoints ==
    \A k \in 1..Len(fixations) :
        /\ Len(fixations[k].members) >= min_points_per_fixation
        /\ fixations[k].x.n >= min_points_per_fixation
        /\ fixations[k].y.n >= min_points_per_fixation
        /\ fixations[k].z.n >= min_points_per_fixation
        /\ fixations[k].origin_x.n >= min_points_per_fixation
        /\ fixations[k].origin_y.n >= min_points_per_fixation
        /\ fixations[k].origin_z.n >= min_points_per_fixation

\* C17 witness: a fixation that started on rows 2 and 3 was ended by the very
\* next row, and its row summarizes exactly min_points_per_fixation rows
C17_Witness ==
    /\ min_points_per_fixation = 2
    /\ Len(fixations) = 1
    /\ fixations[1].members = <<2, 3>>
    /\ fixations[1].x.n = 2
    /\ Len(data) = 4

\* the input position of the row that ended the k-th fixation
Disqualifier(k) ==
    LET c == CHOOSE c \in FailedInFixation :
                 Cardinality({d \in FailedInFixation : d <= c}) = k
    IN  idt_calls[c].idx[Len(idt_calls[c].idx)]

\* C18: no row of the input is a member of two saved rows, and the first
\* member of a saved row is at or after the row that ended the fixation saved
\* before it, hence after the last member of that one.
C18_RowsDisjoint ==
    /\ \A j \in 1..Len(fixations) : \A k \in (j + 1)..Len(fixations) :
           Range(fixations[j].members) \cap Range(fixations[k].members) = {}
    /\ \A k \in 1..(Len(fixations) - 1) :
           LET last == fixations[k].members[Len(fixations[k].members)]
               first == fixations[k + 1].members[1]
           IN  /\ Cardinality(FailedInFixation) >= k
               /\ first >= Disqualifier(k)
               /\ first > last

\* C18 witness: the row that ended the fixation of rows 1 and 2 is the first
\* member of the next saved row
C18_Witness ==
    /\ min_points_per_fixation = 2
    /\ Len(fixations) = 2
    /\ fixations[1].members = <<1, 2>>
    /\ fixations[2].members = <<3, 4>>
    /\ Len(data) = 5

=============================================================================
